---- MODULE Spec2Model ----
(***************************************************************************)
(* Model of the AHP engine of the IoT room-selection frontend              *)
(* (utils/ahpCalculations.js): buildComparisonMatrix, calculateWeights,    *)
(* calculateConsistencyRatio, isConsistent and calculateAHPWeights, and of *)
(* the ProfileAdjuster component (profile state, slider change, reset and  *)
(* the effect that notifies the parent), of mockApi.evaluateRooms, of the  *)
(* interceptors of the API client and of the RoomSelection page.           *)
(*                                                                         *)
(* Numbers.  A judgment and a matrix entry is an exact rational <<p, q>>   *)
(* (q > 0, lowest terms).  Everything computed from Math.pow onwards is a  *)
(* JavaScript Number modelled as a record: a finite value in fixed point   *)
(* (val = value * Scale, every operation rounded to the nearest unit, as   *)
(* IEEE arithmetic rounds to the nearest double), NaN, or +/-Infinity.     *)
(***************************************************************************)
EXTENDS Integers, Sequences, FiniteSets, TLC

VARIABLES
    \* arguments and return values of the engine's exported functions
    criteria, comparisons, matrix, weightArray, cr, result, returned,
    \* the module-level table RANDOM_INDEX as it is now, the number of
    \* calculateAHPWeights calls made on this module instance, and what each
    \* input returns on a freshly loaded module
    randomIndex, calls, alone,
    \* ProfileAdjuster: the profile state, the argument of the last
    \* onProfileChange call, whether the effect on [profile] is scheduled,
    \* and the last handler that ran
    profile, parentProfile, effectPending, lastEvent,
    \* the call calculateAHPWeights(criteria, {}) run statement by statement
    \* in IEEE 754 double arithmetic: position and locals
    frame,
    \* mockApi.js: the imported roomsData array and the promise of the last
    \* evaluateRooms call
    mock,
    \* apiClient.js: localStorage's auth_token, the requests that left the
    \* request interceptor and wait for a response, the configuration of the
    \* last of them and what the last response gave the caller
    client,
    \* RoomSelection.jsx: the rankings, loading and error states and the
    \* promise handleEvaluateRooms awaits
    page

engineVars == <<criteria, comparisons, matrix, weightArray, cr, result, returned>>

moduleVars == <<randomIndex, calls, alone>>

profileVars == <<profile, parentProfile, effectPending, lastEvent>>

frontendVars == <<mock, client, page>>

vars ==
    <<criteria, comparisons, matrix, weightArray, cr, result, returned,
      randomIndex, calls, alone,
      profile, parentProfile, effectPending, lastEvent, frame,
      mock, client, page>>

(***************************************************************************)
(* Bounds of the model.                                                    *)
(***************************************************************************)
\* longest criterion list
MaxN == 3
\* most entries of a comparisons object
MaxJudgments == 2
\* fixed-point units per 1.0
Scale == 1000
\* largest matrix order handed to calculateConsistencyRatio
MaxOrder == 12
\* most calculateAHPWeights calls made on one module instance
MaxCalls == 2
\* slider positions above the lower end of a slider
MaxSteps == 2
\* most rooms in the data set
MaxRooms == 3

(***************************************************************************)
(* Input domains.                                                          *)
(***************************************************************************)
Labels == {"A", "B", "C"}

\* the key the code forms for a pair (template literals of lines 38-39)
Key(a, b) == a \o "-" \o b

\* the key the Component Architecture document and the spec give for a pair
DocKey(a, b) == a \o " vs " \o b

\* keys a caller may put in the comparisons object: one per unordered pair
\* in the code's format, the reverse direction of the pair A, B, and the
\* documented format for the pair A, B
Keys ==
    {Key("A", "B"), Key("B", "A"), Key("A", "C"), Key("B", "C"),
     DocKey("A", "B")}

\* judgment values a caller may supply: the Saaty values 1 and 3 and the
\* invalid values 0 and -3 (reciprocals arise in the matrix)
JudgmentValues == {<<1, 1>>, <<3, 1>>, <<0, 1>>, <<-3, 1>>}

CriteriaLists == UNION {[1..n -> Labels] : n \in 1..MaxN}

JudgmentMaps ==
    UNION {[ks -> JudgmentValues] :
              ks \in {s \in SUBSET Keys : Cardinality(s) <= MaxJudgments}}

\* calls the documentation works out, passed in the code's key format:
\* one criterion nine times as important as the other
SingleDominance ==
    [criteria |-> <<"A", "B">>,
     comparisons |-> (Key("A", "B") :> <<9, 1>>)]

\* A over B = 9, B over C = 9, yet A and C equal
CyclicContradiction ==
    [criteria |-> <<"A", "B", "C">>,
     comparisons |-> (Key("A", "B") :> <<9, 1>>) @@ (Key("B", "C") :> <<9, 1>>)
                         @@ (Key("A", "C") :> <<1, 1>>)]

\* the Main Criteria Matrix of the Criteria Hierarchy document: 1.2, 2.0, 1.5
MainCriteria ==
    [criteria |-> <<"Comfort", "Health", "Usability">>,
     comparisons |-> (Key("Comfort", "Health") :> <<6, 5>>)
                         @@ (Key("Comfort", "Usability") :> <<2, 1>>)
                         @@ (Key("Health", "Usability") :> <<3, 2>>)]

DocumentedCalls == {SingleDominance, CyclicContradiction, MainCriteria}

(***************************************************************************)
(* Exact rationals (judgments, matrix entries, row products).              *)
(***************************************************************************)
Abs(x) == IF x < 0 THEN -x ELSE x

RECURSIVE Gcd(_, _)
Gcd(a, b) == IF b = 0 THEN a ELSE Gcd(b, a % b)

\* p/q in lowest terms with a positive denominator (q # 0)
Rat(p, q) ==
    LET g == Gcd(Abs(p), Abs(q))
        s == IF q < 0 THEN -1 ELSE 1
    IN  <<(s * p) \div g, (s * q) \div g>>

RatOne == <<1, 1>>

\* x * y
RatMul(x, y) == Rat(x[1] * y[1], x[2] * y[2])

\* 1 / x for x # 0
RatRecip(x) == Rat(x[2], x[1])

\* x + y
RatAdd(x, y) == Rat(x[1] * y[2] + y[1] * x[2], x[2] * y[2])

\* x < y
RatLess(x, y) == x[1] * y[2] < y[1] * x[2]

\* JavaScript truthiness of a number: 0 is falsy
Truthy(x) == x[1] # 0

(***************************************************************************)
(* JavaScript Numbers from Math.pow onwards.                               *)
(***************************************************************************)
NaN == [kind |-> "NaN", val |-> 0]

Fin(v) == [kind |-> "fin", val |-> v]

\* s = 1: Infinity, s = -1: -Infinity
Inf(s) == [kind |-> "Inf", val |-> s]

IsFinite(x) == x.kind = "fin"

Sign(v) == IF v < 0 THEN -1 ELSE IF v > 0 THEN 1 ELSE 0

\* a / b rounded to the nearest integer (b > 0)
RoundDiv(a, b) == (2 * a + b) \div (2 * b)

\* x + y
NumAdd(x, y) ==
    IF x.kind = "NaN" \/ y.kind = "NaN" THEN NaN
    ELSE IF x.kind = "Inf" /\ y.kind = "Inf"
         THEN (IF x.val = y.val THEN x ELSE NaN)
    ELSE IF x.kind = "Inf" THEN x
    ELSE IF y.kind = "Inf" THEN y
    ELSE Fin(x.val + y.val)

\* x - y
NumSub(x, y) ==
    NumAdd(x, IF y.kind = "NaN" THEN NaN
              ELSE IF y.kind = "Inf" THEN Inf(-y.val) ELSE Fin(-y.val))

\* x / y, with JavaScript's 0/0 = NaN and v/0 = +/-Infinity
NumDiv(x, y) ==
    IF x.kind = "NaN" \/ y.kind = "NaN" THEN NaN
    ELSE IF x.kind = "Inf"
         THEN (IF y.kind = "Inf" THEN NaN
               ELSE Inf(x.val * (IF y.val < 0 THEN -1 ELSE 1)))
    ELSE IF y.kind = "Inf" THEN Fin(0)
    ELSE IF y.val = 0
         THEN (IF x.val = 0 THEN NaN ELSE Inf(Sign(x.val)))
    ELSE Fin(RoundDiv(Sign(y.val) * x.val * Scale, Abs(y.val)))

\* m * x for a matrix entry m (a rational, never 0) and a Number x
NumMulRat(m, x) ==
    IF x.kind = "NaN" THEN NaN
    ELSE IF x.kind = "Inf" THEN Inf(x.val * Sign(m[1]))
    ELSE Fin(RoundDiv(m[1] * x.val, m[2]))

(***************************************************************************)
(* Math.pow(product, 1 / n): the n-th root, rounded to the nearest unit.   *)
(* The comparison f^n * q <= p * T^n is made on naturals written in base   *)
(* 10000 (least significant digit first), which do not overflow.           *)
(***************************************************************************)
RECURSIVE BigMulCarry(_, _, _)
\* a * m + c, for a digit sequence a and small naturals m, c
BigMulCarry(a, m, c) ==
    IF a = <<>>
    THEN (IF c = 0 THEN <<>>
          ELSE <<c % 10000>> \o BigMulCarry(<<>>, m, c \div 10000))
    ELSE LET t == Head(a) * m + c
         IN  <<t % 10000>> \o BigMulCarry(Tail(a), m, t \div 10000)

RECURSIVE BigPowMul(_, _, _)
\* k * m^n as a digit sequence (k, m >= 1)
BigPowMul(a, m, n) ==
    IF n = 0 THEN a ELSE BigPowMul(BigMulCarry(a, m, 0), m, n - 1)

RECURSIVE BigLeqAt(_, _, _)
BigLeqAt(a, b, i) ==
    IF i = 0 THEN TRUE
    ELSE IF a[i] # b[i] THEN a[i] < b[i]
    ELSE BigLeqAt(a, b, i - 1)

\* a <= b for digit sequences without leading zeros
BigLeq(a, b) ==
    IF Len(a) # Len(b) THEN Len(a) < Len(b) ELSE BigLeqAt(a, b, Len(a))

\* f / T <= (p / q)^(1/n), for p, q, f, T >= 1
RootOk(p, q, n, T, f) ==
    BigLeq(BigPowMul(BigMulCarry(<<>>, 1, q), f, n),
           BigPowMul(BigMulCarry(<<>>, 1, p), T, n))

RECURSIVE RootUpper(_, _, _, _, _)
\* a power-of-two multiple h of T with h / T > (p / q)^(1/n)
RootUpper(p, q, n, T, h) ==
    IF RootOk(p, q, n, T, h) THEN RootUpper(p, q, n, T, 2 * h) ELSE h

RECURSIVE RootSearch(_, _, _, _, _, _)
\* the largest f in lo..hi-1 with RootOk(f), given RootOk(lo) and ~RootOk(hi)
RootSearch(p, q, n, T, lo, hi) ==
    IF hi - lo <= 1 THEN lo
    ELSE LET mid == (lo + hi) \div 2
         IN  IF RootOk(p, q, n, T, mid)
             THEN RootSearch(p, q, n, T, mid, hi)
             ELSE RootSearch(p, q, n, T, lo, mid)

\* floor(T * (p / q)^(1/n))
FloorRoot(p, q, n, T) == RootSearch(p, q, n, T, 0, RootUpper(p, q, n, T, T))

RECURSIVE RowProducts(_)
\* the positive values the product of k off-diagonal entries can take
RowProducts(k) ==
    IF k = 0 THEN {RatOne}
    ELSE LET entries ==
                 {<<Abs(v[1]), v[2]>> : v \in {w \in JudgmentValues : Truthy(w)}}
         IN  {RatMul(x, e) : x \in RowProducts(k - 1),
                             e \in {RatOne} \cup entries
                                     \cup {RatRecip(v) : v \in entries}}

(***************************************************************************)
(* ahpCalculations.js                                                      *)
(***************************************************************************)
\* RANDOM_INDEX, in hundredths
RANDOM_INDEX == <<0, 0, 58, 90, 112, 124, 132, 141, 145, 149>>

\* PairJudgment with the lower-triangle entry looked up on its own under the
\* reverse key instead of computed as the reciprocal
PairJudgmentIndependent(crit, comp, i, j) ==
    LET key == Key(crit[i], crit[j])
        reverseKey == Key(crit[j], crit[i])
    IN  <<IF key \in DOMAIN comp /\ Truthy(comp[key])
          THEN comp[key] ELSE RatOne,
          IF reverseKey \in DOMAIN comp /\ Truthy(comp[reverseKey])
          THEN comp[reverseKey] ELSE RatOne>>

\* PairJudgment without the default branch, on a matrix filled with 0
PairJudgmentNoDefault(crit, comp, i, j) ==
    LET key == Key(crit[i], crit[j])
        reverseKey == Key(crit[j], crit[i])
    IN  IF key \in DOMAIN comp /\ Truthy(comp[key])
        THEN <<comp[key], RatRecip(comp[key])>>
        ELSE IF reverseKey \in DOMAIN comp /\ Truthy(comp[reverseKey])
        THEN <<RatRecip(comp[reverseKey]), comp[reverseKey]>>
        ELSE <<<<0, 1>>, <<0, 1>>>>

\* PairJudgment testing the reverse key first
PairJudgmentReverseFirst(crit, comp, i, j) ==
    LET key == Key(crit[i], crit[j])
        reverseKey == Key(crit[j], crit[i])
    IN  IF reverseKey \in DOMAIN comp /\ Truthy(comp[reverseKey])
        THEN <<RatRecip(comp[reverseKey]), comp[reverseKey]>>
        ELSE IF key \in DOMAIN comp /\ Truthy(comp[key])
        THEN <<comp[key], RatRecip(comp[key])>>
        ELSE <<RatOne, RatOne>>

\* PairJudgment storing a reverse-key judgment in the upper cell as it is
\* instead of its reciprocal
PairJudgmentUnswapped(crit, comp, i, j) ==
    LET key == Key(crit[i], crit[j])
        reverseKey == Key(crit[j], crit[i])
    IN  IF key \in DOMAIN comp /\ Truthy(comp[key])
        THEN <<comp[key], RatRecip(comp[key])>>
        ELSE IF reverseKey \in DOMAIN comp /\ Truthy(comp[reverseKey])
        THEN <<comp[reverseKey], RatRecip(comp[reverseKey])>>
        ELSE <<RatOne, RatOne>>

\* lines 38-51: the entries <<matrix[i][j], matrix[j][i]>> of the pair i < j
PairJudgment(crit, comp, i, j) ==
    LET key == Key(crit[i], crit[j])
        reverseKey == Key(crit[j], crit[i])
    IN  IF key \in DOMAIN comp /\ Truthy(comp[key])
        THEN <<comp[key], RatRecip(comp[key])>>
        ELSE IF reverseKey \in DOMAIN comp /\ Truthy(comp[reverseKey])
        THEN <<RatRecip(comp[reverseKey]), comp[reverseKey]>>
        ELSE <<RatOne, RatOne>>

\* a JavaScript array, held as the sequence of its elements
Array(a) == a \o <<>>

buildComparisonMatrix(crit, comp) ==
    LET n == Len(crit)
    IN  Array([i \in 1..n |->
            Array([j \in 1..n |->
                IF i < j THEN PairJudgment(crit, comp, i, j)[1]
                ELSE IF j < i THEN PairJudgment(crit, comp, j, i)[2]
                ELSE RatOne])])

RECURSIVE RowProduct(_, _)
\* lines 69-72: product of the first k entries of a row, starting from 1
RowProduct(row, k) ==
    IF k = 0 THEN RatOne ELSE RatMul(RowProduct(row, k - 1), row[k])

\* the positive row products of the documented calls
DocumentedProducts ==
    {LET m == buildComparisonMatrix(e.criteria, e.comparisons)
         x == RowProduct(m[i], Len(m))
     IN  <<Abs(x[1]), x[2]>> :
        <<e, i>> \in {<<d, k>> \in DocumentedCalls \X (1..MaxN) :
                          k <= Len(d.criteria)}}

\* the roots of all positive row products, computed once
RootTable ==
    [n \in 2..MaxOrder |->
        [x \in RowProducts(MaxN - 1) \cup DocumentedProducts |->
            (FloorRoot(x[1], x[2], n, 2 * Scale) + 1) \div 2]]

\* Math.pow(x, 1 / n) for a rational x: x itself for n = 1, NaN for a
\* negative base with a fractional exponent
MathPow(x, n) ==
    IF n = 1 THEN Fin(RoundDiv(x[1] * Scale, x[2]))
    ELSE IF x[1] < 0 THEN NaN
    ELSE IF x[1] = 0 THEN Fin(0)
    ELSE Fin(RootTable[n][x])

RECURSIVE NumSum(_, _)
\* sum of the first k Numbers of a sequence, starting from 0
NumSum(xs, k) ==
    IF k = 0 THEN Fin(0) ELSE NumAdd(NumSum(xs, k - 1), xs[k])

\* calculateWeights returning the geometric means without normalising them
calculateWeightsUnnormalized(m) ==
    LET n == Len(m)
    IN  Array([i \in 1..n |-> MathPow(RowProduct(m[i], n), n)])

\* calculateWeights normalising the row products themselves, without the
\* n-th root
calculateWeightsNoRoot(m) ==
    LET n == Len(m)
        weights == Array([i \in 1..n |-> MathPow(RowProduct(m[i], n), 1)])
        sum == NumSum(weights, n)
    IN  Array([i \in 1..n |-> NumDiv(weights[i], sum)])

calculateWeights(m) ==
    LET n == Len(m)
        weights == Array([i \in 1..n |-> MathPow(RowProduct(m[i], n), n)])
        sum == NumSum(weights, n)
    IN  Array([i \in 1..n |-> NumDiv(weights[i], sum)])

\* calculateLambdaMax returning the sum of the ratios, not their average
calculateLambdaMaxNoAverage(m, weights) ==
    LET n == Len(m)
        weightedSum ==
            Array([i \in 1..n |->
                NumSum([j \in 1..n |-> NumMulRat(m[i][j], weights[j])], n)])
    IN  NumSum([i \in 1..n |-> NumDiv(weightedSum[i], weights[i])], n)

calculateLambdaMax(m, weights) ==
    LET n == Len(m)
        weightedSum ==
            Array([i \in 1..n |->
                NumSum([j \in 1..n |-> NumMulRat(m[i][j], weights[j])], n)])
        lambdaMax ==
            NumSum([i \in 1..n |-> NumDiv(weightedSum[i], weights[i])], n)
    IN  NumDiv(lambdaMax, Fin(n * Scale))

\* calculateCI dividing by n instead of n - 1
calculateCIOverOrder(lambdaMax, n) ==
    NumDiv(NumSub(lambdaMax, Fin(n * Scale)), Fin(n * Scale))

calculateCI(lambdaMax, n) ==
    NumDiv(NumSub(lambdaMax, Fin(n * Scale)), Fin((n - 1) * Scale))

\* RANDOM_INDEX[n] without the fallback: undefined beyond the table, and a
\* division by undefined gives NaN
RandomIndexNoFallback(n) ==
    IF n \in 1..Len(randomIndex)
    THEN Fin(RoundDiv(randomIndex[n] * Scale, 100))
    ELSE NaN

\* RANDOM_INDEX[n] || 1.49, read from the module-level table
RandomIndexOr(n) ==
    LET h == IF n \in 1..Len(randomIndex) THEN randomIndex[n] ELSE 0
    IN  Fin(RoundDiv((IF h # 0 THEN h ELSE 149) * Scale, 100))

\* calculateConsistencyRatio without the early return for n < 3
calculateConsistencyRatioNoGuard(m, weights) ==
    LET n == Len(m)
    IN  NumDiv(calculateCI(calculateLambdaMax(m, weights), n),
               RandomIndexOr(n))

\* calculateConsistencyRatio returning 0 for n <= 3 instead of n < 3
calculateConsistencyRatioGuardOffByOne(m, weights) ==
    LET n == Len(m)
    IN  IF n <= 3 THEN Fin(0)
        ELSE NumDiv(calculateCI(calculateLambdaMax(m, weights), n),
                    RandomIndexOr(n))

calculateConsistencyRatio(m, weights) ==
    LET n == Len(m)
    IN  IF n < 3 THEN Fin(0)
        ELSE NumDiv(calculateCI(calculateLambdaMax(m, weights), n),
                    RandomIndexOr(n))

\* isConsistent with the threshold 1.0 in place of 0.1
isConsistentLoose(x) ==
    IF x.kind = "fin" THEN x.val < Scale
    ELSE IF x.kind = "Inf" THEN x.val < 0
    ELSE FALSE

\* cr < 0.1
isConsistent(x) ==
    IF x.kind = "fin" THEN 10 * x.val < Scale
    ELSE IF x.kind = "Inf" THEN x.val < 0
    ELSE FALSE

\* lines 157-160: a later occurrence of a label overwrites an earlier one
WeightsObject(crit, w) ==
    [c \in {crit[i] : i \in 1..Len(crit)} |->
        w[CHOOSE i \in 1..Len(crit) :
            /\ crit[i] = c
            /\ \A k \in 1..Len(crit) : crit[k] = c => k <= i]]

\* the code has no throw statement: every call returns (error = "none")
calculateAHPWeights(crit, comp) ==
    LET m == buildComparisonMatrix(crit, comp)
        w == calculateWeights(m)
        c == calculateConsistencyRatio(m, w)
    IN  [weights |-> WeightsObject(crit, w),
         consistencyRatio |-> c,
         isConsistent |-> isConsistent(c),
         error |-> "none"]

(***************************************************************************)
(* IEEE 754 double arithmetic, exact: a double is a sign, a significand m  *)
(* (a natural written in base 2^15, least significant digit first, no      *)
(* leading zeros, odd or empty) and an exponent e, with value m * 2^e;     *)
(* every operation rounds the exact result to MantissaBits bits, ties to   *)
(* even.  The values met here are far from the subnormal and overflow      *)
(* ranges.                                                                 *)
(***************************************************************************)
MantissaBits == 53

LimbBits == 15

Limb == 2 ^ LimbBits

\* without leading zeros
LTrim(a) ==
    IF \A i \in 1..Len(a) : a[i] = 0 THEN <<>>
    ELSE SubSeq(a, 1, CHOOSE n \in 1..Len(a) :
                          a[n] # 0 /\ \A j \in (n + 1)..Len(a) : a[j] = 0)

RECURSIVE LOf(_)
\* the natural k in base Limb
LOf(k) == IF k = 0 THEN <<>> ELSE <<k % Limb>> \o LOf(k \div Limb)

RECURSIVE LAdd(_, _, _)
\* a + b + c for a carry c
LAdd(a, b, c) ==
    IF a = <<>> /\ b = <<>> THEN (IF c = 0 THEN <<>> ELSE <<c>>)
    ELSE LET x == IF a = <<>> THEN 0 ELSE Head(a)
             y == IF b = <<>> THEN 0 ELSE Head(b)
             t == x + y + c
         IN  <<t % Limb>> \o LAdd(IF a = <<>> THEN a ELSE Tail(a),
                                  IF b = <<>> THEN b ELSE Tail(b), t \div Limb)

\* a < b
LLess(a, b) ==
    IF Len(a) # Len(b) THEN Len(a) < Len(b)
    ELSE \E i \in 1..Len(a) :
             a[i] < b[i] /\ \A j \in (i + 1)..Len(a) : a[j] = b[j]

RECURSIVE LSubBorrow(_, _, _)
LSubBorrow(a, b, c) ==
    IF a = <<>> THEN <<>>
    ELSE LET y == IF b = <<>> THEN 0 ELSE Head(b)
             t == Head(a) - y - c
         IN  <<t % Limb>> \o LSubBorrow(Tail(a),
                                        IF b = <<>> THEN b ELSE Tail(b),
                                        IF t < 0 THEN 1 ELSE 0)

\* a - b for a >= b
LSub(a, b) == LTrim(LSubBorrow(a, b, 0))

RECURSIVE LMulSmall(_, _, _)
\* a * m + c for m, c < Limb
LMulSmall(a, m, c) ==
    IF a = <<>> THEN (IF c = 0 THEN <<>> ELSE <<c>>)
    ELSE LET t == Head(a) * m + c
         IN  <<t % Limb>> \o LMulSmall(Tail(a), m, t \div Limb)

\* the number of bits of a
LBitLen(a) ==
    IF a = <<>> THEN 0
    ELSE (Len(a) - 1) * LimbBits
             + CHOOSE k \in 1..LimbBits :
                   2 ^ (k - 1) <= a[Len(a)] /\ a[Len(a)] < 2 ^ k

\* bit i of a, counted from 0
LBit(a, i) ==
    LET q == (i \div LimbBits) + 1
    IN  IF q > Len(a) THEN 0 ELSE (a[q] \div (2 ^ (i % LimbBits))) % 2

\* a * 2^k
LShiftLeft(a, k) ==
    IF a = <<>> THEN a
    ELSE [i \in 1..(k \div LimbBits) |-> 0]
             \o LMulSmall(a, 2 ^ (k % LimbBits), 0)

\* floor(a / 2^k)
LShiftRight(a, k) ==
    LET s == k % LimbBits
        b == SubSeq(a, (k \div LimbBits) + 1, Len(a))
    IN  LTrim([i \in 1..Len(b) |->
                  (b[i] \div (2 ^ s))
                      + (IF i < Len(b)
                         THEN (b[i + 1] % (2 ^ s)) * (2 ^ (LimbBits - s))
                         ELSE 0)])

RECURSIVE LQuotDigit(_, _, _, _)
\* the largest q in lo..hi-1 with b * q <= r, given b * lo <= r < b * hi
LQuotDigit(r, b, lo, hi) ==
    IF hi - lo <= 1 THEN lo
    ELSE LET mid == (lo + hi) \div 2
         IN  IF LLess(r, LMulSmall(b, mid, 0))
             THEN LQuotDigit(r, b, lo, mid)
             ELSE LQuotDigit(r, b, mid, hi)

RECURSIVE LDivStep(_, _, _, _, _)
\* long division from digit i of a downwards: <<quotient, remainder>>
LDivStep(a, b, i, r, q) ==
    IF i = 0 THEN <<LTrim(q), r>>
    ELSE LET r2 == LTrim(<<a[i]>> \o r)
             d == LQuotDigit(r2, b, 0, Limb)
         IN  LDivStep(a, b, i - 1, LSub(r2, LMulSmall(b, d, 0)), <<d>> \o q)

LDivMod(a, b) == LDivStep(a, b, Len(a), <<>>, <<>>)

DZero == [neg |-> FALSE, m |-> <<>>, e |-> 0]

\* the same value with an odd significand
DNorm(neg, m, e) ==
    IF m = <<>> THEN DZero
    ELSE LET t == CHOOSE i \in 0..(LBitLen(m) - 1) :
                      LBit(m, i) = 1 /\ \A j \in 0..(i - 1) : LBit(m, j) = 0
         IN  [neg |-> neg, m |-> LShiftRight(m, t), e |-> e + t]

\* the double nearest to (-1)^neg * (m + f) * 2^e, where 0 <= f < 1 and
\* sticky says f > 0 (then m has more than MantissaBits bits): ties to even
DRound(neg, m, e, sticky) ==
    IF LBitLen(m) <= MantissaBits THEN DNorm(neg, m, e)
    ELSE LET d == LBitLen(m) - MantissaBits
             kept == LShiftRight(m, d)
             rest == sticky \/ \E k \in 0..(d - 2) : LBit(m, k) = 1
             up == LBit(m, d - 1) = 1 /\ (rest \/ LBit(kept, 0) = 1)
         IN  DNorm(neg, IF up THEN LAdd(kept, <<>>, 1) ELSE kept, e + d)

\* the double of a natural below 2^31
DNat(k) == DNorm(FALSE, LOf(k), 0)

\* x + y
DAdd(x, y) ==
    IF x.m = <<>> THEN y
    ELSE IF y.m = <<>> THEN x
    ELSE LET e == IF x.e < y.e THEN x.e ELSE y.e
             a == LShiftLeft(x.m, x.e - e)
             b == LShiftLeft(y.m, y.e - e)
         IN  IF x.neg = y.neg THEN DRound(x.neg, LAdd(a, b, 0), e, FALSE)
             ELSE IF a = b THEN DZero
             ELSE IF LLess(a, b) THEN DRound(y.neg, LSub(b, a), e, FALSE)
             ELSE DRound(x.neg, LSub(a, b), e, FALSE)

\* x - y
DSub(x, y) == DAdd(x, IF y.m = <<>> THEN y ELSE [y EXCEPT !.neg = ~y.neg])

\* x / y for y # 0
DDiv(x, y) ==
    IF x.m = <<>> THEN DZero
    ELSE LET k == MantissaBits + 2 + LBitLen(y.m)
             qr == LDivMod(LShiftLeft(x.m, k), y.m)
         IN  DRound(x.neg # y.neg, qr[1], x.e - y.e - k, qr[2] # <<>>)

(***************************************************************************)
(* ProfileAdjuster.jsx and constants/euStandards.js                        *)
(***************************************************************************)
EU_STANDARDS ==
    [temperature |-> [min |-> 18, max |-> 26, optimalMin |-> 20, optimalMax |-> 24],
     co2 |-> [min |-> 0, max |-> 1000, optimalMin |-> 0, optimalMax |-> 600],
     humidity |-> [min |-> 30, max |-> 70, optimalMin |-> 40, optimalMax |-> 60],
     noise |-> [min |-> 0, max |-> 45, optimalMin |-> 0, optimalMax |-> 35],
     light |-> [min |-> 200, max |-> 750, optimalMin |-> 300, optimalMax |-> 500],
     voc |-> [min |-> 0, max |-> 400, optimalMin |-> 0, optimalMax |-> 200],
     airQuality |-> [min |-> 0, max |-> 100, optimalMin |-> 0, optimalMax |-> 50]]

getDefaultProfile ==
    [key \in DOMAIN EU_STANDARDS |->
        [min |-> EU_STANDARDS[key].optimalMin,
         max |-> EU_STANDARDS[key].optimalMax]]

displayCriteria == {"temperature", "co2", "humidity", "noise", "light"}

\* the whole-number distance between slider positions: the step 10, and two
\* steps of 0.5 for temperature and humidity
WholeStep(criterion) ==
    IF criterion = "temperature" \/ criterion = "humidity" THEN 1 ELSE 10

\* the values a slider reports: the positions next to its lower end
SliderValues(criterion) ==
    {EU_STANDARDS[criterion].min + k * WholeStep(criterion) : k \in 0..MaxSteps}

\* onProfileChange not yet called
NoProfile == [key \in DOMAIN EU_STANDARDS |-> [min |-> -1, max |-> -1]]

(***************************************************************************)
(* mockApi.js.  A room of the data set is its room_id, its four sensor     *)
(* readings (0: the reading is missing) and has_projector; the fields the  *)
(* ranking only copies (name, seating_capacity, computers, has_robots) are *)
(* left out.  Scores are exact rationals.                                  *)
(***************************************************************************)
RoomReadings ==
    {[temperature |-> 22, co2 |-> 500, humidity |-> 50, air_quality |-> 30,
      has_projector |-> TRUE],
     [temperature |-> 25, co2 |-> 1200, humidity |-> 20, air_quality |-> 70,
      has_projector |-> FALSE],
     [temperature |-> 28, co2 |-> 0, humidity |-> 65, air_quality |-> 0,
      has_projector |-> TRUE],
     [temperature |-> 0, co2 |-> 0, humidity |-> 0, air_quality |-> 0,
      has_projector |-> FALSE]}

\* the data sets: the rooms carry the ids 1, 2, ... in the order of the file
RoomsDataSets ==
    UNION {{[i \in 1..n |-> [room_id |-> i] @@ r[i]] :
               r \in [1..n -> RoomReadings]} : n \in 1..MaxRooms}

\* weights objects (hundredths) and profiles a request may carry
RequestWeights ==
    {[Comfort |-> 40, Health |-> 35, Usability |-> 25],
     [Comfort |-> 20, Health |-> 20, Usability |-> 60]}

RequestProfiles ==
    {getDefaultProfile,
     [getDefaultProfile EXCEPT !.temperature = [min |-> 20, max |-> 26],
                               !.co2 = [min |-> 0, max |-> 1000]]}

Preferences ==
    [weights : RequestWeights, profile_adjustments : RequestProfiles]

\* values of Math.random()
RandomValues == {<<0, 1>>, <<1, 2>>}

\* lines 9-46; the scores 1, 0.7, 0.6, 0.3, 0.2 in tenths
scoreRoom(room, userProfile) ==
    LET tempScore ==
            IF room.temperature = 0 THEN <<>>
            ELSE IF room.temperature >= 20 /\ room.temperature <= 24 THEN <<10>>
            ELSE IF room.temperature >= 18 /\ room.temperature <= 26 THEN <<7>>
            ELSE <<3>>
        co2Score ==
            IF room.co2 = 0 THEN <<>>
            ELSE IF room.co2 < 600 THEN <<10>>
            ELSE IF room.co2 < 1000 THEN <<6>> ELSE <<2>>
        humidityScore ==
            IF room.humidity = 0 THEN <<>>
            ELSE IF room.humidity >= 40 /\ room.humidity <= 60 THEN <<10>>
            ELSE IF room.humidity >= 30 /\ room.humidity <= 70 THEN <<7>>
            ELSE <<3>>
        aqScore ==
            IF room.air_quality = 0 THEN <<>>
            ELSE IF room.air_quality < 50 THEN <<10>>
            ELSE IF room.air_quality < 100 THEN <<6>> ELSE <<2>>
        scores == tempScore \o co2Score \o humidityScore \o aqScore
        score == [k \in 0..Len(scores) |->
                     IF k = 0 THEN 0 ELSE scores[k]]
        count == Len(scores)
        Total[k \in 0..count] == IF k = 0 THEN 0 ELSE Total[k - 1] + score[k]
    IN  IF count > 0 THEN Rat(Total[count], 10 * count) ELSE <<0, 1>>

RECURSIVE InsertByFinalScore(_, _)
\* a room put behind every room whose final_score is not below its own
InsertByFinalScore(sorted, room) ==
    IF sorted = <<>> THEN <<room>>
    ELSE IF RatLess(Head(sorted).final_score, room.final_score)
    THEN <<room>> \o sorted
    ELSE <<Head(sorted)>> \o InsertByFinalScore(Tail(sorted), room)

RECURSIVE SortByFinalScore(_, _)
\* line 73: sort((a, b) => b.final_score - a.final_score) of the first k
\* rooms, a stable sort
SortByFinalScore(rooms, k) ==
    IF k = 0 THEN <<>>
    ELSE InsertByFinalScore(SortByFinalScore(rooms, k - 1), rooms[k])

\* lines 63-69: the new array of scored rooms; random[i] holds the two
\* Math.random() values drawn for room i
ScoredRooms(roomsData, preferences, random) ==
    [i \in 1..Len(roomsData) |->
        LET room == roomsData[i]
        IN  room @@
            [final_score |-> scoreRoom(room, preferences.profile_adjustments),
             comfort_score |->
                 RatAdd(RatMul(scoreRoom(room, <<>>), <<9, 10>>),
                        RatMul(random[i][1], <<1, 10>>)),
             health_score |->
                 RatAdd(RatMul(scoreRoom(room, <<>>), <<19, 20>>),
                        RatMul(random[i][2], <<1, 20>>)),
             usability_score |->
                 IF room.has_projector THEN <<9, 10>> ELSE <<3, 5>>]]

\* lines 72-101: what the promise resolves with
EvaluateRoomsValue(roomsData, preferences, random) ==
    LET scoredRooms == ScoredRooms(roomsData, preferences, random)
        sorted == SortByFinalScore(scoredRooms, Len(scoredRooms))
    IN  [rankings |-> [index \in 1..Len(sorted) |->
                          [rank |-> index] @@ sorted[index]],
         weights |-> [Comfort |-> 40, Health |-> 35, Usability |-> 25],
         consistency_ratio |-> 5,
         is_consistent |-> TRUE]

\* mockApi.js imported with the data set d, evaluateRooms not yet called
MockLoaded(d) == [roomsData |-> d, promise |-> [state |-> "none"]]

(***************************************************************************)
(* apiClient.js: the interceptors of axiosInstance.  A request             *)
(* configuration is its Authorization header ("none": no such header).     *)
(***************************************************************************)
\* localStorage.getItem('auth_token') when no token is stored
NoToken == "null"

\* non-empty tokens a login may store
Tokens == {"token-1", "token-2"}

\* what a response gives the caller: a 2xx response resolves; any other
\* status, and a request that got no response (status 0), rejects
ResponseStatuses == {200, 400, 401, 403, 404, 500, 0}

\* no request made yet
ClientLoaded ==
    [auth_token |-> NoToken,
     requests |-> <<>>,
     settled |-> [status |-> 0, rejected |-> FALSE]]

\* lines 98-111: the configuration that leaves the request interceptor
RequestInterceptor(token) ==
    [Authorization |-> IF token # NoToken THEN "Bearer " \o token ELSE "none"]

\* lines 127-160: the stored token after the response interceptor has
\* handled an error response with this status
ResponseInterceptorKeepingToken(token, status) == token

ResponseInterceptor(token, status) ==
    IF status = 401 THEN NoToken ELSE token

(***************************************************************************)
(* RoomSelection.jsx: the states of the page and the promises of           *)
(* apiClient.evaluateRooms that handleEvaluateRooms awaits.                *)
(***************************************************************************)
\* useState(null): no response stored
NoRankings == [null |-> TRUE]

NoError == "null"

\* responses of apiClient.evaluateRooms: rankings of a data set of one room
Results ==
    {EvaluateRoomsValue(d, p, <<<<<<0, 1>>, <<0, 1>>>>>>) :
        d \in {x \in RoomsDataSets : Len(x) = 1},
        p \in {x \in Preferences : x.profile_adjustments = getDefaultProfile
                                      /\ x.weights.Comfort = 40}}

\* lines 9-18
PageMounted ==
    [preferences |-> [weights |-> <<>>],
     profile |-> <<>>,
     rankings |-> NoRankings,
     loading |-> FALSE,
     error |-> NoError,
     requests |-> <<>>,
     settled |-> "none"]

\* none of the three in use
FrontendIdle ==
    /\ mock = MockLoaded(<<>>)
    /\ client = ClientLoaded
    /\ page = PageMounted

(***************************************************************************)
(* Specification: the inputs of one use of the module are drawn in Init;   *)
(* a behaviour either calls the entry point calculateAHPWeights or calls   *)
(* the three exported steps one after the other.                           *)
(***************************************************************************)
\* no statement-by-statement run
NoFrame == [pc |-> "none"]

NoResult ==
    [weights |-> [c \in {} |-> NaN],
     consistencyRatio |-> NaN,
     isConsistent |-> FALSE,
     error |-> "none"]

\* the module as loaded, before any call
ModuleLoaded ==
    /\ randomIndex = RANDOM_INDEX
    /\ calls = 0
    /\ alone = <<>>

\* no ProfileAdjuster mounted
ProfileIdle ==
    /\ profile = getDefaultProfile
    /\ parentProfile = NoProfile
    /\ effectPending = FALSE
    /\ lastEvent = "none"

\* nothing returned yet
NothingReturned ==
    /\ frame = NoFrame
    /\ matrix = <<>>
    /\ weightArray = <<>>
    /\ cr = NaN
    /\ result = NoResult
    /\ returned = {}

Init ==
    /\ \/ /\ criteria \in CriteriaLists
          /\ comparisons \in JudgmentMaps
       \/ \E e \in DocumentedCalls :
              /\ criteria = e.criteria
              /\ comparisons = e.comparisons
    /\ NothingReturned
    /\ ModuleLoaded
    /\ ProfileIdle
    /\ FrontendIdle

BuildComparisonMatrix ==
    /\ returned = {}
    /\ matrix' = buildComparisonMatrix(criteria, comparisons)
    /\ returned' = {"buildComparisonMatrix"}
    /\ UNCHANGED <<criteria, comparisons, weightArray, cr, result>>
    /\ UNCHANGED <<moduleVars, profileVars, frame, frontendVars>>

\* calculateWeights accumulating each row product in the first cell of the
\* row of the matrix it was given
CalculateWeightsInPlace ==
    /\ returned = {"buildComparisonMatrix"}
    /\ weightArray' = calculateWeights(matrix)
    /\ matrix' = [i \in 1..Len(matrix) |->
                     [matrix[i] EXCEPT ![1] = RowProduct(matrix[i], Len(matrix))]]
    /\ returned' = returned \cup {"calculateWeights"}
    /\ UNCHANGED <<criteria, comparisons, cr, result>>
    /\ UNCHANGED <<moduleVars, profileVars, frame, frontendVars>>

CalculateWeights ==
    /\ returned = {"buildComparisonMatrix"}
    /\ weightArray' = calculateWeights(matrix)
    /\ returned' = returned \cup {"calculateWeights"}
    /\ UNCHANGED <<criteria, comparisons, matrix, cr, result>>
    /\ UNCHANGED <<moduleVars, profileVars, frame, frontendVars>>

CalculateConsistencyRatio ==
    /\ returned = {"buildComparisonMatrix", "calculateWeights"}
    /\ cr' = calculateConsistencyRatio(matrix, weightArray)
    /\ returned' = returned \cup {"calculateConsistencyRatio"}
    /\ UNCHANGED <<criteria, comparisons, matrix, weightArray, result>>
    /\ UNCHANGED <<moduleVars, profileVars, frame, frontendVars>>

CalculateAHPWeights ==
    /\ returned = {}
    /\ result' = calculateAHPWeights(criteria, comparisons)
    /\ returned' = {"calculateAHPWeights"}
    /\ UNCHANGED <<criteria, comparisons, matrix, weightArray, cr>>
    /\ UNCHANGED <<moduleVars, profileVars, frame, frontendVars>>

Next ==
    \/ BuildComparisonMatrix
    \/ CalculateWeights
    \/ CalculateConsistencyRatio
    \/ CalculateAHPWeights

Spec == Init /\ [][Next]_vars

(***************************************************************************)
(* The same functions on criterion lists of every length up to MaxOrder:   *)
(* the first three criteria are A, B, C, judged under the keys A-B and     *)
(* B-C, the others are left to the default.                                *)
(***************************************************************************)
Digits == <<"0", "1", "2", "3", "4", "5", "6", "7", "8", "9">>

\* the i-th criterion name
CriterionName(i) ==
    IF i <= 3 THEN <<"A", "B", "C">>[i]
    ELSE "K" \o Digits[(i \div 10) + 1] \o Digits[(i % 10) + 1]

OrderCriteria(n) == [i \in 1..n |-> CriterionName(i)]

OrderJudgmentMaps ==
    {j \in JudgmentMaps : DOMAIN j \subseteq {Key("A", "B"), Key("B", "C")}}

InitOrders ==
    /\ \E n \in 1..MaxOrder : criteria = OrderCriteria(n)
    /\ comparisons \in OrderJudgmentMaps
    /\ NothingReturned
    /\ ModuleLoaded
    /\ ProfileIdle
    /\ FrontendIdle

SpecOrders == InitOrders /\ [][Next]_vars

(***************************************************************************)
(* The same functions on criterion names that contain the separator of the *)
(* keys: a list of unique names and at most one judgment, supplied under   *)
(* the key of a pair of names.                                             *)
(***************************************************************************)
SeparatorLabels == {"A", "B-C", "A-B", "C"}

SeparatorLists ==
    {c \in UNION {[1..n -> SeparatorLabels] :
                     n \in 1..Cardinality(SeparatorLabels)} :
        \A i, j \in DOMAIN c : c[i] = c[j] => i = j}

InitKeys ==
    /\ criteria \in SeparatorLists
    /\ comparisons \in
           {<<>>} \cup {Key(a, b) :> <<3, 1>> :
                           <<a, b>> \in {x \in SeparatorLabels \X SeparatorLabels :
                                            x[1] # x[2]}}
    /\ NothingReturned
    /\ ModuleLoaded
    /\ ProfileIdle
    /\ FrontendIdle

SpecKeys == InitKeys /\ [][Next]_vars

(***************************************************************************)
(* calculateAHPWeights(criteria, {}) statement by statement in IEEE 754    *)
(* double arithmetic.  Without judgments every matrix entry is 1, every    *)
(* row product is 1 and Math.pow(1, 1 / n) is 1, so each intermediate      *)
(* value is fixed by IEEE 754.                                             *)
(***************************************************************************)
InitIdentity ==
    /\ \E n \in 1..MaxOrder : criteria = OrderCriteria(n)
    /\ comparisons = <<>>
    /\ frame = [pc |-> "calculateWeights", i |-> 0, j |-> 0,
                weights |-> <<>>, weightedSum |-> <<>>,
                lambdaMax |-> DZero, consistencyRatio |-> DZero]
    /\ matrix = <<>>
    /\ weightArray = <<>>
    /\ cr = NaN
    /\ result = NoResult
    /\ returned = {}
    /\ ModuleLoaded
    /\ ProfileIdle
    /\ FrontendIdle

\* RANDOM_INDEX[n] || 1.49 as a double
RandomIndexDouble(n) ==
    LET h == IF n \in 1..Len(randomIndex) THEN randomIndex[n] ELSE 0
    IN  DDiv(DNat(IF h # 0 THEN h ELSE 149), DNat(100))

\* lines 63-79 on the all-ones matrix: geometric means 1, sum n, weights
\* 1 / n; then line 127 for n < 3 or line 89
WeightsStatement ==
    /\ frame.pc = "calculateWeights"
    /\ LET n == Len(criteria)
       IN  frame' = [frame EXCEPT
                        !.weights = [k \in 1..n |-> DDiv(DNat(1), DNat(n))],
                        !.weightedSum = [k \in 1..n |-> DZero],
                        !.i = 1,
                        !.j = 1,
                        !.pc = IF n < 3 THEN "done" ELSE "multiply"]
    /\ UNCHANGED <<engineVars, moduleVars, profileVars, frontendVars>>

\* line 94: weightedSum[i] += matrix[i][j] * weights[j], with matrix[i][j] = 1
MultiplyStatement ==
    /\ frame.pc = "multiply"
    /\ LET n == Len(criteria)
           i == frame.i
           j == frame.j
       IN  frame' = [frame EXCEPT
                        !.weightedSum[i] = DAdd(@, frame.weights[j]),
                        !.j = IF j < n THEN j + 1 ELSE 1,
                        !.i = IF j < n THEN i ELSE IF i < n THEN i + 1 ELSE 1,
                        !.pc = IF j = n /\ i = n THEN "lambdaMax" ELSE "multiply"]
    /\ UNCHANGED <<engineVars, moduleVars, profileVars, frontendVars>>

\* line 101: lambdaMax += weightedSum[i] / weights[i]
LambdaStatement ==
    /\ frame.pc = "lambdaMax"
    /\ LET n == Len(criteria)
           i == frame.i
       IN  frame' = [frame EXCEPT
                        !.lambdaMax =
                            DAdd(@, DDiv(frame.weightedSum[i], frame.weights[i])),
                        !.i = IF i < n THEN i + 1 ELSE 1,
                        !.pc = IF i = n THEN "ratio" ELSE "lambdaMax"]
    /\ UNCHANGED <<engineVars, moduleVars, profileVars, frontendVars>>

\* lines 104, 114 and 129-133: lambdaMax / n, CI and CI / RI
RatioStatement ==
    /\ frame.pc = "ratio"
    /\ LET n == Len(criteria)
           lambdaMax == DDiv(frame.lambdaMax, DNat(n))
           CI == DDiv(DSub(lambdaMax, DNat(n)), DNat(n - 1))
       IN  frame' = [frame EXCEPT
                        !.lambdaMax = lambdaMax,
                        !.consistencyRatio = DDiv(CI, RandomIndexDouble(n)),
                        !.pc = "done"]
    /\ UNCHANGED <<engineVars, moduleVars, profileVars, frontendVars>>

NextIdentity ==
    \/ WeightsStatement
    \/ MultiplyStatement
    \/ LambdaStatement
    \/ RatioStatement

SpecIdentity == InitIdentity /\ [][NextIdentity]_vars

(***************************************************************************)
(* A sequence of calculateAHPWeights calls on one loaded module.  The      *)
(* function is synchronous, so calls made from interleaved callers run one *)
(* after the other.                                                        *)
(***************************************************************************)
\* inputs of the calls: three criteria, so that the table is read, and at
\* most the judgment A-B
CallInputs ==
    {c \in CriteriaLists : Len(c) = 3}
        \X {j \in JudgmentMaps : DOMAIN j \subseteq {Key("A", "B")}}

InitCalls ==
    /\ criteria = <<"A">>
    /\ comparisons = <<>>
    /\ NothingReturned
    /\ randomIndex = RANDOM_INDEX
    /\ calls = 0
    /\ alone = [inp \in CallInputs |-> calculateAHPWeights(inp[1], inp[2])]
    /\ ProfileIdle
    /\ FrontendIdle

\* a call that stores the fallback 1.49 into the table entry it has read
CallCalculateAHPWeightsWritingTable ==
    /\ calls < MaxCalls
    /\ \E inp \in CallInputs :
          /\ criteria' = inp[1]
          /\ comparisons' = inp[2]
          /\ result' = calculateAHPWeights(inp[1], inp[2])
          /\ randomIndex' = [randomIndex EXCEPT ![Len(inp[1])] = 149]
    /\ calls' = calls + 1
    /\ returned' = {"calculateAHPWeights"}
    /\ UNCHANGED <<matrix, weightArray, cr, alone, profileVars, frame, frontendVars>>

CallCalculateAHPWeights ==
    /\ calls < MaxCalls
    /\ \E inp \in CallInputs :
          /\ criteria' = inp[1]
          /\ comparisons' = inp[2]
          /\ result' = calculateAHPWeights(inp[1], inp[2])
    /\ calls' = calls + 1
    /\ returned' = {"calculateAHPWeights"}
    /\ UNCHANGED <<matrix, weightArray, cr, randomIndex, alone, profileVars, frame, frontendVars>>

NextCalls == CallCalculateAHPWeights

SpecCalls == InitCalls /\ [][NextCalls]_vars

(***************************************************************************)
(* ProfileAdjuster: mounted with the default profile; a handler runs when  *)
(* no effect is scheduled (React runs the effect of a render before it     *)
(* handles the next event's update), and every setProfile call stores a    *)
(* new object, which schedules the effect on [profile].                    *)
(***************************************************************************)
InitProfile ==
    /\ criteria = <<"A">>
    /\ comparisons = <<>>
    /\ NothingReturned
    /\ ModuleLoaded
    /\ profile = getDefaultProfile
    /\ parentProfile = NoProfile
    /\ effectPending = TRUE
    /\ lastEvent = "mount"
    /\ FrontendIdle

handleCriterionChange(criterion, value) ==
    /\ ~effectPending
    /\ profile' = [profile EXCEPT
                      ![criterion] = [min |-> EU_STANDARDS[criterion].optimalMin,
                                      max |-> value]]
    /\ effectPending' = TRUE
    /\ lastEvent' = "change"
    /\ UNCHANGED <<parentProfile, engineVars, moduleVars, frame, frontendVars>>

HandleCriterionChange ==
    \E criterion \in displayCriteria :
        \E value \in SliderValues(criterion) :
            handleCriterionChange(criterion, value)

\* handleReset writing the defaults into the current profile object: the
\* state keeps its identity and the effect on [profile] is not scheduled
handleResetInPlace ==
    /\ ~effectPending
    /\ profile' = getDefaultProfile
    /\ effectPending' = FALSE
    /\ lastEvent' = "reset"
    /\ UNCHANGED <<parentProfile, engineVars, moduleVars, frame, frontendVars>>

handleReset ==
    /\ ~effectPending
    /\ profile' = getDefaultProfile
    /\ effectPending' = TRUE
    /\ lastEvent' = "reset"
    /\ UNCHANGED <<parentProfile, engineVars, moduleVars, frame, frontendVars>>

\* the effect on [profile]: onProfileChange(profile)
NotifyParent ==
    /\ effectPending
    /\ parentProfile' = profile
    /\ effectPending' = FALSE
    /\ UNCHANGED <<profile, lastEvent, engineVars, moduleVars, frame, frontendVars>>

\* lines 64-66: profile[criterion]?.max || EU_STANDARDS[criterion].optimalMax
\* (a stored max of 0 is falsy)
getCurrentValue(criterion) ==
    IF criterion \in DOMAIN profile /\ profile[criterion].max # 0
    THEN profile[criterion].max
    ELSE EU_STANDARDS[criterion].optimalMax

NextProfile ==
    \/ HandleCriterionChange
    \/ handleReset
    \/ NotifyParent

SpecProfile == InitProfile /\ [][NextProfile]_vars

(***************************************************************************)
(* mockApi.evaluateRooms: a call returns a pending promise; the timer      *)
(* callback scores the rooms, sorts the scored copies and resolves the     *)
(* promise.  A call is made when the promise of the call before it has     *)
(* been resolved (calls share nothing but roomsData).                      *)
(***************************************************************************)
OtherIdle ==
    /\ criteria = <<"A">>
    /\ comparisons = <<>>
    /\ NothingReturned
    /\ ModuleLoaded
    /\ ProfileIdle

InitMock ==
    /\ OtherIdle
    /\ \E d \in RoomsDataSets : mock = MockLoaded(d)
    /\ client = ClientLoaded
    /\ page = PageMounted

\* lines 59-61
EvaluateRooms ==
    /\ mock.promise.state # "pending"
    /\ \E preferences \in Preferences :
           mock' = [mock EXCEPT !.promise = [state |-> "pending",
                                            preferences |-> preferences]]
    /\ UNCHANGED <<engineVars, moduleVars, profileVars, frame, client, page>>

\* the timer callback sorting the imported array itself before it maps it
EvaluateRoomsTimeoutSortingShared ==
    /\ mock.promise.state = "pending"
    /\ \E random \in [1..Len(mock.roomsData) -> RandomValues \X RandomValues] :
           LET value == EvaluateRoomsValue(mock.roomsData,
                                           mock.promise.preferences, random)
           IN  mock' = [roomsData |->
                            [i \in 1..Len(mock.roomsData) |->
                                mock.roomsData[value.rankings[i].room_id]],
                        promise |-> [state |-> "resolved",
                                     preferences |-> mock.promise.preferences,
                                     value |-> value]]
    /\ UNCHANGED <<engineVars, moduleVars, profileVars, frame, client, page>>

\* lines 61-102: the timer callback
EvaluateRoomsTimeout ==
    /\ mock.promise.state = "pending"
    /\ \E random \in [1..Len(mock.roomsData) -> RandomValues \X RandomValues] :
           mock' = [mock EXCEPT
                       !.promise =
                           [state |-> "resolved",
                            preferences |-> mock.promise.preferences,
                            value |-> EvaluateRoomsValue(
                                          mock.roomsData,
                                          mock.promise.preferences, random)]]
    /\ UNCHANGED <<engineVars, moduleVars, profileVars, frame, client, page>>

NextMock ==
    \/ EvaluateRooms
    \/ EvaluateRoomsTimeout

SpecMock == InitMock /\ [][NextMock]_vars

(***************************************************************************)
(* The interceptors of the API client: a login stores a token, a request   *)
(* made through axiosInstance passes the request interceptor and waits     *)
(* for its response, a response passes the response interceptor.           *)
(***************************************************************************)
InitClient ==
    /\ OtherIdle
    /\ mock = MockLoaded(<<>>)
    /\ client = ClientLoaded
    /\ page = PageMounted

\* localStorage.setItem('auth_token', token), done by a login
StoreToken ==
    /\ \E token \in Tokens : client' = [client EXCEPT !.auth_token = token]
    /\ UNCHANGED <<engineVars, moduleVars, profileVars, frame, mock, page>>

SendRequest ==
    /\ Len(client.requests) < MaxCalls
    /\ client' = [client EXCEPT
                     !.requests = Append(@, RequestInterceptor(client.auth_token))]
    /\ UNCHANGED <<engineVars, moduleVars, profileVars, frame, mock, page>>

\* the response to the i-th waiting request arrives with this status
ReceiveResponse ==
    /\ \E i \in 1..Len(client.requests), status \in ResponseStatuses :
           client' =
               [auth_token |-> IF status = 200 THEN client.auth_token
                               ELSE ResponseInterceptor(client.auth_token, status),
                requests |-> [k \in 1..(Len(client.requests) - 1) |->
                                 client.requests[IF k < i THEN k ELSE k + 1]],
                settled |-> [status |-> status, rejected |-> status # 200]]
    /\ UNCHANGED <<engineVars, moduleVars, profileVars, frame, mock, page>>

NextClient ==
    \/ StoreToken
    \/ SendRequest
    \/ ReceiveResponse

SpecClient == InitClient /\ [][NextClient]_vars

(***************************************************************************)
(* The RoomSelection page: the child components hand it preferences and a  *)
(* profile, a click on the Evaluate button (disabled while loading) runs   *)
(* handleEvaluateRooms up to its await, and the settling of the awaited    *)
(* promise runs the rest of the handler.                                   *)
(***************************************************************************)
InitPage ==
    /\ OtherIdle
    /\ mock = MockLoaded(<<>>)
    /\ client = ClientLoaded
    /\ page = PageMounted

\* lines 20-23
handlePreferencesChange ==
    /\ \E weights \in RequestWeights :
           page' = [page EXCEPT !.preferences = [weights |-> weights]]
    /\ UNCHANGED <<engineVars, moduleVars, profileVars, frame, mock, client>>

\* lines 25-28
handleProfileChange ==
    /\ \E newProfile \in RequestProfiles :
           page' = [page EXCEPT !.profile = newProfile]
    /\ UNCHANGED <<engineVars, moduleVars, profileVars, frame, mock, client>>

\* handleEvaluateRooms without setError(null)
handleEvaluateRoomsKeepingError ==
    /\ ~page.loading
    /\ Len(page.requests) < MaxCalls
    /\ page' = [page EXCEPT
                   !.loading = TRUE,
                   !.requests =
                       Append(@, [weights |-> page.preferences.weights,
                                  profile_adjustments |-> page.profile])]
    /\ UNCHANGED <<engineVars, moduleVars, profileVars, frame, mock, client>>

\* lines 30-40, on a click: the button is enabled when loading is false
handleEvaluateRooms ==
    /\ ~page.loading
    /\ Len(page.requests) < MaxCalls
    /\ page' = [page EXCEPT
                   !.loading = TRUE,
                   !.error = NoError,
                   !.requests =
                       Append(@, [weights |-> page.preferences.weights,
                                  profile_adjustments |-> page.profile])]
    /\ UNCHANGED <<engineVars, moduleVars, profileVars, frame, mock, client>>

\* lines 42-43 and 47-49: the awaited promise resolves
EvaluateRoomsResolved ==
    /\ page.requests # <<>>
    /\ \E response \in Results :
           page' = [page EXCEPT
                       !.rankings = response,
                       !.loading = FALSE,
                       !.requests = Tail(@),
                       !.settled = "resolved"]
    /\ UNCHANGED <<engineVars, moduleVars, profileVars, frame, mock, client>>

\* the catch block without the finally block
EvaluateRoomsRejectedNoFinally ==
    /\ page.requests # <<>>
    /\ page' = [page EXCEPT
                   !.error = "Failed to evaluate rooms. Please try again.",
                   !.requests = Tail(@),
                   !.settled = "rejected"]
    /\ UNCHANGED <<engineVars, moduleVars, profileVars, frame, mock, client>>

\* lines 44-49: the awaited promise rejects
EvaluateRoomsRejected ==
    /\ page.requests # <<>>
    /\ page' = [page EXCEPT
                   !.error = "Failed to evaluate rooms. Please try again.",
                   !.loading = FALSE,
                   !.requests = Tail(@),
                   !.settled = "rejected"]
    /\ UNCHANGED <<engineVars, moduleVars, profileVars, frame, mock, client>>

NextPage ==
    \/ handlePreferencesChange
    \/ handleProfileChange
    \/ handleEvaluateRooms
    \/ EvaluateRoomsResolved
    \/ EvaluateRoomsRejected

SpecPage == InitPage /\ [][NextPage]_vars

(***************************************************************************)
(* Vocabulary of the properties.                                           *)
(***************************************************************************)
Built == "buildComparisonMatrix" \in returned

Weighted == "calculateWeights" \in returned

Rated == "calculateConsistencyRatio" \in returned

Done == "calculateAHPWeights" \in returned

N == Len(criteria)

UniqueLabels == \A i, j \in 1..N : criteria[i] = criteria[j] => i = j

\* every value of the judgment mapping is strictly positive
PositiveJudgments == \A k \in DOMAIN comparisons : comparisons[k][1] > 0

ValidInput == UniqueLabels /\ PositiveJudgments

\* the judgment mapping has an entry for the direction (a, b), in the code's
\* key format or in the documented one
HasEntry(a, b) ==
    Key(a, b) \in DOMAIN comparisons \/ DocKey(a, b) \in DOMAIN comparisons

\* a judgment supplied for a pair of listed criteria is zero or negative
NonPositiveSupplied ==
    \E i, j \in 1..N :
        /\ criteria[i] # criteria[j]
        /\ Key(criteria[i], criteria[j]) \in DOMAIN comparisons
        /\ comparisons[Key(criteria[i], criteria[j])][1] <= 0

RECURSIVE SumVal(_, _)
\* sum of the fixed-point values of the first k Numbers of a sequence
SumVal(xs, k) == IF k = 0 THEN 0 ELSE SumVal(xs, k - 1) + xs[k].val

\* a sequence of n finite weights in [0, 1] whose sum is 1 up to the n
\* roundings of the normalisation (half a unit each)
NormalisedWeights(w, n) ==
    /\ Len(w) = n
    /\ \A i \in 1..n : IsFinite(w[i]) /\ 0 <= w[i].val /\ w[i].val <= Scale
    /\ 2 * Abs(SumVal(w, n) - Scale) <= n

\* the weight 1/n, up to rounding
IsOneNth(x, n) == IsFinite(x) /\ 2 * Abs(n * x.val - Scale) <= n

(***************************************************************************)
(* C1. For unique labels and strictly positive judgments the matrix        *)
(* returned by buildComparisonMatrix satisfies M[i][j] * M[j][i] = 1 for   *)
(* all i, j, the diagonal included (so M[i][i] = 1).                       *)
(***************************************************************************)
C1_Reciprocity ==
    (Built /\ ValidInput) =>
        /\ Len(matrix) = N
        /\ \A i, j \in 1..N : RatMul(matrix[i][j], matrix[j][i]) = RatOne
        /\ \A i \in 1..N : matrix[i][i] = RatOne

C1_Witness ==
    /\ Built /\ ValidInput /\ N = 3
    /\ \E i, j \in 1..N : i < j /\ matrix[i][j] = <<3, 1>> /\ matrix[j][i] = <<1, 3>>

(***************************************************************************)
(* C2. If a judgment supplied for a pair of listed criteria is             *)
(* non-positive, calculateAHPWeights fails with InvalidInputError: it      *)
(* returns no result and does not treat the value as omitted.              *)
(***************************************************************************)
C2_NonPositiveJudgmentFails ==
    (Done /\ NonPositiveSupplied) => result.error = "InvalidInputError"

(***************************************************************************)
(* C3. If the criterion list contains a duplicate label,                   *)
(* calculateAHPWeights fails with InvalidInputError instead of returning   *)
(* a result.                                                               *)
(***************************************************************************)
C3_DuplicateCriteriaFail ==
    (Done /\ ~UniqueLabels) => result.error = "InvalidInputError"

(***************************************************************************)
(* C4. For every input, calculateAHPWeights either fails with              *)
(* InvalidInputError or returns weights and a consistencyRatio that are    *)
(* all finite numbers.                                                     *)
(***************************************************************************)
C4_FailsOrFinite ==
    Done =>
        \/ result.error = "InvalidInputError"
        \/ /\ \A c \in DOMAIN result.weights : IsFinite(result.weights[c])
           /\ IsFinite(result.consistencyRatio)

(***************************************************************************)
(* C5. The judgment for the pair (a, b) is read from the mapping entry     *)
(* whose key is "a vs b": with such an entry of positive value v (and no   *)
(* other entry for the pair) the matrix has M[a][b] = v.                   *)
(***************************************************************************)
C5_DocKeyIsRead ==
    Built =>
        \A i, j \in 1..N :
            (/\ i < j
             /\ DocKey(criteria[i], criteria[j]) \in DOMAIN comparisons
             /\ comparisons[DocKey(criteria[i], criteria[j])][1] > 0
             /\ Key(criteria[i], criteria[j]) \notin DOMAIN comparisons
             /\ Key(criteria[j], criteria[i]) \notin DOMAIN comparisons)
            => matrix[i][j] = comparisons[DocKey(criteria[i], criteria[j])]

(***************************************************************************)
(* C6. For every pair of distinct criteria (a, b) for which the mapping    *)
(* has an entry in neither direction, the built matrix has                 *)
(* M[a][b] = M[b][a] = 1, whatever entries exist for other pairs.          *)
(***************************************************************************)
C6_MissingPairDefaultsToOne ==
    Built =>
        \A i, j \in 1..N :
            (/\ criteria[i] # criteria[j]
             /\ ~HasEntry(criteria[i], criteria[j])
             /\ ~HasEntry(criteria[j], criteria[i]))
            => matrix[i][j] = RatOne /\ matrix[j][i] = RatOne

C6_Witness ==
    /\ Built /\ N = 3 /\ UniqueLabels
    /\ \E i, j \in 1..N :
           /\ criteria[i] # criteria[j]
           /\ ~HasEntry(criteria[i], criteria[j])
           /\ ~HasEntry(criteria[j], criteria[i])
    /\ \E i, j \in 1..N : matrix[i][j] = <<3, 1>>

(***************************************************************************)
(* C7. When the mapping holds positive entries for both directions of a    *)
(* pair and they are not exact reciprocals, the matrix uses only the       *)
(* entry for the direction (a, b) with a preceding b in the criterion      *)
(* order: M[a][b] is that entry and M[b][a] its reciprocal.                *)
(***************************************************************************)
C7_ForwardDirectionWins ==
    Built =>
        \A i, j \in 1..N :
            LET key == Key(criteria[i], criteria[j])
                reverseKey == Key(criteria[j], criteria[i])
            IN  (/\ i < j
                 /\ key \in DOMAIN comparisons
                 /\ reverseKey \in DOMAIN comparisons
                 /\ comparisons[key][1] > 0
                 /\ comparisons[reverseKey][1] > 0
                 /\ RatMul(comparisons[key], comparisons[reverseKey]) # RatOne)
                => /\ matrix[i][j] = comparisons[key]
                   /\ matrix[j][i] = RatRecip(comparisons[key])

C7_Witness ==
    /\ Built /\ UniqueLabels
    /\ \E i, j \in 1..N :
           /\ i < j
           /\ Key(criteria[i], criteria[j]) \in DOMAIN comparisons
           /\ Key(criteria[j], criteria[i]) \in DOMAIN comparisons
           /\ comparisons[Key(criteria[i], criteria[j])] = <<1, 1>>
           /\ comparisons[Key(criteria[j], criteria[i])] = <<3, 1>>
           /\ matrix[i][j] = <<1, 1>>

(***************************************************************************)
(* C8. For valid input (n >= 1 unique criteria, positive judgments) the    *)
(* weights returned by calculateWeights / calculateAHPWeights are one per  *)
(* criterion, each in [0, 1], and sum to 1 (here: up to the rounding of    *)
(* the n divisions); for n = 1 the result is exactly [1].                  *)
(***************************************************************************)
C8_WeightsNormalised ==
    /\ (Weighted /\ ValidInput) =>
           /\ NormalisedWeights(weightArray, N)
           /\ N = 1 => weightArray = <<Fin(Scale)>>
    /\ (Done /\ ValidInput) =>
           /\ DOMAIN result.weights = {criteria[i] : i \in 1..N}
           /\ NormalisedWeights([i \in 1..N |-> result.weights[criteria[i]]], N)
           /\ N = 1 => result.weights[criteria[1]] = Fin(Scale)

C8_Witness ==
    /\ Weighted /\ ValidInput /\ N = 3
    /\ \E i, j \in 1..N : weightArray[i].val > weightArray[j].val

(***************************************************************************)
(* C9. If all judgments are 1 or omitted, calculateAHPWeights returns      *)
(* weight 1/n for every criterion, consistencyRatio = 0 and                *)
(* isConsistent = true.                                                    *)
(***************************************************************************)
AllJudgmentsOne == \A k \in DOMAIN comparisons : comparisons[k] = RatOne

C10_SmallOrderIsConsistent ==
    /\ (Rated /\ N < 3) => cr = Fin(0)
    /\ (Done /\ N < 3) =>
           result.consistencyRatio = Fin(0) /\ result.isConsistent

C10_Witness ==
    /\ Rated /\ N = 2
    /\ \E i \in 1..N : ~IsFinite(weightArray[i])
    /\ cr = Fin(0)

(***************************************************************************)
(* C11. For every valid input (unique criteria, positive judgments) the    *)
(* consistencyRatio returned by calculateAHPWeights is >= 0.  Stated on    *)
(* the calls without judgments, computed in double arithmetic.             *)
(***************************************************************************)
C11_RatioIsNonNegative ==
    frame.pc = "done" => ~frame.consistencyRatio.neg

(***************************************************************************)
(* C12. In every result of calculateAHPWeights, isConsistent is true       *)
(* exactly when consistencyRatio < 0.1 (a ratio of 0.1 or more, or NaN,    *)
(* gives false).                                                           *)
(***************************************************************************)
BelowThreshold(x) ==
    \/ IsFinite(x) /\ 10 * x.val < Scale
    \/ x = Inf(-1)

C12_ConsistentIffBelowThreshold ==
    Done => (result.isConsistent <=> BelowThreshold(result.consistencyRatio))

C12_Witness ==
    /\ Done
    /\ IsFinite(result.consistencyRatio)
    /\ 10 * result.consistencyRatio.val >= Scale
    /\ result.consistencyRatio.val < Scale
    /\ ~result.isConsistent

(***************************************************************************)
(* C13. With each unordered pair judged in one direction only, the result  *)
(* of calculateAHPWeights (the weight of each criterion name, the          *)
(* consistencyRatio and isConsistent) is the same when two criteria of the *)
(* list change places, the comparisons object unchanged.  Every            *)
(* permutation is a sequence of such exchanges, and the criterion lists of *)
(* Init are closed under them.                                             *)
(***************************************************************************)
Exchange(c, i, j) ==
    [k \in 1..Len(c) |-> IF k = i THEN c[j] ELSE IF k = j THEN c[i] ELSE c[k]]

OneDirectionOnly ==
    \A a, b \in {criteria[i] : i \in 1..N} :
        ~(Key(a, b) \in DOMAIN comparisons /\ Key(b, a) \in DOMAIN comparisons
          /\ a # b)

C13_OrderInvariance ==
    (Done /\ OneDirectionOnly) =>
        \A c \in {Exchange(criteria, i, j) : i, j \in 1..N} \ {criteria} :
            calculateAHPWeights(c, comparisons) = result

C13_Witness ==
    /\ Done /\ OneDirectionOnly /\ ValidInput /\ N = 3
    /\ Key("B", "A") \in DOMAIN comparisons
    /\ comparisons[Key("B", "A")] = <<3, 1>>
    /\ criteria = <<"C", "A", "B">>
    /\ result.weights["A"] # result.weights["B"]

IsRatio(x, p, q) == IsFinite(x) /\ Abs(q * x.val - p * Scale) <= q

C16_SingleJudgmentWeights ==
    \A a, b \in {criteria[i] : i \in 1..N} :
        (/\ Done /\ N = 2 /\ a # b
         /\ DOMAIN comparisons = {Key(a, b)}
         /\ comparisons[Key(a, b)][1] > 0) =>
            LET v == comparisons[Key(a, b)]
            IN  /\ IsRatio(result.weights[a], v[1], v[1] + v[2])
                /\ IsRatio(result.weights[b], v[2], v[1] + v[2])

C16_Witness ==
    /\ Done
    /\ criteria = SingleDominance.criteria
    /\ comparisons = SingleDominance.comparisons
    /\ IsRatio(result.weights["A"], 9, 10)
    /\ IsRatio(result.weights["B"], 1, 10)

(***************************************************************************)
(* C17. For criteria [A, B, C] with A over B = 9, B over C = 9 and         *)
(* A over C = 1, calculateAHPWeights returns consistencyRatio >= 0.1 and   *)
(* isConsistent = false.                                                   *)
(***************************************************************************)
IsCall(e) == criteria = e.criteria /\ comparisons = e.comparisons

C17_CyclicContradictionIsInconsistent ==
    (Done /\ IsCall(CyclicContradiction)) =>
        /\ IsFinite(result.consistencyRatio)
        /\ 10 * result.consistencyRatio.val >= Scale
        /\ ~result.isConsistent

C17_Witness ==
    /\ Done /\ IsCall(CyclicContradiction)
    /\ IsFinite(result.consistencyRatio)
    /\ result.consistencyRatio.val > 2 * Scale
    /\ result.isConsistent = FALSE

(***************************************************************************)
(* C18. For the documented main-criteria matrix (Comfort over Health 1.2,  *)
(* Comfort over Usability 2.0, Health over Usability 1.5) the weights are  *)
(* within 0.02 of Comfort 0.42, Health 0.35, Usability 0.23, the           *)
(* consistencyRatio is below 0.01 and isConsistent is true.                *)
(***************************************************************************)
\* x is within 0.02 of h hundredths
NearHundredths(x, h) == IsFinite(x) /\ Abs(100 * x.val - h * Scale) <= 2 * Scale

C18_MainCriteriaExample ==
    (Done /\ IsCall(MainCriteria)) =>
        /\ NearHundredths(result.weights["Comfort"], 42)
        /\ NearHundredths(result.weights["Health"], 35)
        /\ NearHundredths(result.weights["Usability"], 23)
        /\ IsFinite(result.consistencyRatio)
        /\ 100 * result.consistencyRatio.val < Scale
        /\ result.isConsistent

C18_Witness ==
    /\ Done /\ IsCall(MainCriteria)
    /\ result.weights["Comfort"].val > result.weights["Health"].val
    /\ result.weights["Health"].val > result.weights["Usability"].val
    /\ result.consistencyRatio.val >= 0
    /\ result.isConsistent = TRUE

(***************************************************************************)
(* C19. For every matrix order n > 10 calculateConsistencyRatio returns    *)
(* the consistency index divided by 1.49; for 3 <= n <= 10 it divides by   *)
(* the table value (0.58, 0.90, 1.12, 1.24, 1.32, 1.41, 1.45, 1.49); the   *)
(* divisor is never 0 when n >= 3.                                         *)
(***************************************************************************)
\* the Random Index the claim gives for order n >= 3, in hundredths
StatedRandomIndex(n) ==
    IF n > 10 THEN 149 ELSE <<58, 90, 112, 124, 132, 141, 145, 149>>[n - 2]

C19_RandomIndexUsed ==
    (Rated /\ N >= 3) =>
        /\ RandomIndexOr(N) = Fin(RoundDiv(StatedRandomIndex(N) * Scale, 100))
        /\ RandomIndexOr(N).val # 0
        /\ cr = NumDiv(calculateCI(calculateLambdaMax(matrix, weightArray), N),
                       Fin(RoundDiv(StatedRandomIndex(N) * Scale, 100)))

C19_Witness ==
    /\ Rated /\ N > 10
    /\ IsFinite(cr) /\ cr.val > 0
    /\ 149 * cr.val <= 100 * calculateCI(calculateLambdaMax(matrix, weightArray), N).val + 149
    /\ 149 * cr.val >= 100 * calculateCI(calculateLambdaMax(matrix, weightArray), N).val - 149

(***************************************************************************)
(* C20. After any sequence of slider changes, handleReset makes the        *)
(* profile the default one (each of the seven EU_STANDARDS entries has     *)
(* min = optimalMin and max = optimalMax), and the notification that       *)
(* follows hands the parent exactly that profile.                          *)
(***************************************************************************)
IsDefaultProfile(p) ==
    /\ DOMAIN p = DOMAIN EU_STANDARDS
    /\ Cardinality(DOMAIN p) = 7
    /\ \A key \in DOMAIN p :
          /\ p[key].min = EU_STANDARDS[key].optimalMin
          /\ p[key].max = EU_STANDARDS[key].optimalMax

C20_ResetRestoresDefault ==
    lastEvent = "reset" =>
        /\ IsDefaultProfile(profile)
        /\ effectPending \/ IsDefaultProfile(parentProfile)

C20_Witness ==
    /\ lastEvent = "reset"
    /\ ~effectPending
    /\ IsDefaultProfile(profile)
    /\ parentProfile = profile

(***************************************************************************)
(* C29. After any sequence of slider changes and resets every entry of the *)
(* profile has min <= max, and a slider change leaves the entries of all   *)
(* criteria but one as they were.                                          *)
(***************************************************************************)
C29_ProfileEntriesOrdered ==
    [][/\ \A key \in DOMAIN profile' : profile'[key].min <= profile'[key].max
       /\ lastEvent' = "change" /\ profile' # profile =>
              \E criterion \in displayCriteria :
                  \A key \in DOMAIN profile \ {criterion} :
                      profile'[key] = profile[key]]_vars

(***************************************************************************)
(* C30. The value shown for a criterion (getCurrentValue) is the max       *)
(* threshold stored in the profile, and, once the parent has been          *)
(* notified, the max threshold the parent holds.                           *)
(***************************************************************************)
C30_ShownValueIsStoredMax ==
    \A criterion \in displayCriteria :
        /\ getCurrentValue(criterion) = profile[criterion].max
        /\ ~effectPending =>
               getCurrentValue(criterion) = parentProfile[criterion].max

(***************************************************************************)
(* C26. For a list of unique criterion names, a judgment supplied under    *)
(* the key of one pair sets the matrix entries of that pair only: the      *)
(* entries of every other pair keep the default 1 (also when names contain *)
(* the separator "-").                                                     *)
(***************************************************************************)
C26_KeyIdentifiesPair ==
    (Built /\ UniqueLabels) =>
        \A i, j \in 1..N :
            (i # j /\ DOMAIN comparisons = {Key(criteria[i], criteria[j])}) =>
                \A k, l \in 1..N :
                    (k # l /\ {k, l} # {i, j}) => matrix[k][l] = RatOne

(***************************************************************************)
(* C24. For every matrix M of order n >= 3 and weight vector w,            *)
(* calculateConsistencyRatio returns ((lambdaMax - n) / (n - 1)) / RI(n),  *)
(* with lambdaMax the average over the rows i of (M w)[i] / w[i],          *)
(* (M w)[i] the sum over j of M[i][j] * w[j], and RI the stated table with *)
(* 1.49 beyond order 10.                                                   *)
(***************************************************************************)
RECURSIVE WeightedSumRow(_, _, _)
\* the sum over j = 1..k of row[j] * w[j]
WeightedSumRow(row, w, k) ==
    IF k = 0 THEN Fin(0)
    ELSE NumAdd(WeightedSumRow(row, w, k - 1), NumMulRat(row[k], w[k]))

RECURSIVE RatioSum(_, _, _)
\* the sum over i = 1..k of (M w)[i] / w[i]
RatioSum(M, w, k) ==
    IF k = 0 THEN Fin(0)
    ELSE NumAdd(RatioSum(M, w, k - 1),
                NumDiv(WeightedSumRow(M[k], w, Len(M)), w[k]))

ReferenceRatio(M, w) ==
    LET n == Len(M)
        lambdaMax == NumDiv(RatioSum(M, w, n), Fin(n * Scale))
        CI == NumDiv(NumSub(lambdaMax, Fin(n * Scale)), Fin((n - 1) * Scale))
    IN  NumDiv(CI, Fin(RoundDiv(StatedRandomIndex(n) * Scale, 100)))

C24_RatioMatchesReference ==
    (Rated /\ N >= 3) => cr = ReferenceRatio(matrix, weightArray)

C24_Witness ==
    /\ Rated
    /\ N > 10
    /\ cr.kind = "fin"
    /\ cr.val > 0
    /\ cr = ReferenceRatio(matrix, weightArray)

(***************************************************************************)
(* C25. If the judgments are perfectly transitive (positive v_1..v_n with  *)
(* every matrix entry M[i][j] = v_i / v_j, that is M[i][j] * M[j][k] =     *)
(* M[i][k] throughout, and then v_i = M[i][1]), calculateAHPWeights        *)
(* returns the weight v_i / (v_1 + ... + v_n) for criterion i,             *)
(* consistencyRatio 0 and isConsistent true, for every n >= 1.             *)
(***************************************************************************)
RECURSIVE FirstColumnSum(_, _)
\* v_1 + ... + v_k
FirstColumnSum(M, k) ==
    IF k = 0 THEN <<0, 1>> ELSE RatAdd(FirstColumnSum(M, k - 1), M[k][1])

Transitive(M) ==
    \A i, j, k \in 1..Len(M) : RatMul(M[i][j], M[j][k]) = M[i][k]

C21_RankingsSortedAndComplete ==
    mock.promise.state = "resolved" =>
        LET rankings == mock.promise.value.rankings
            rooms == mock.roomsData
        IN  /\ Len(rankings) = Len(rooms)
            /\ \A i \in 1..Len(rooms) :
                   Cardinality({k \in 1..Len(rankings) :
                                   rankings[k].room_id = rooms[i].room_id}) = 1
            /\ \A k \in 1..(Len(rankings) - 1) :
                   ~RatLess(rankings[k].final_score, rankings[k + 1].final_score)
            /\ \A k \in 1..Len(rankings) : rankings[k].rank = k
            /\ \A i \in 1..Len(rooms) : rooms[i].room_id = i

C21_Witness ==
    /\ mock.promise.state = "resolved"
    /\ Len(mock.roomsData) = MaxRooms
    /\ mock.promise.value.rankings[1].room_id = MaxRooms
    /\ mock.promise.value.rankings[1].rank = 1
    /\ RatLess(mock.promise.value.rankings[MaxRooms].final_score,
               mock.promise.value.rankings[1].final_score)
    /\ \A i \in 1..MaxRooms : mock.roomsData[i].room_id = i

(***************************************************************************)
(* C22. The final_score of every ranked room is the combination of its     *)
(* comfort, health and usability scores under the weights of the request.  *)
(***************************************************************************)
C22_FinalScoreIsWeightedCombination ==
    mock.promise.state = "resolved" =>
        LET weights == mock.promise.preferences.weights
        IN  \A k \in 1..Len(mock.promise.value.rankings) :
                LET room == mock.promise.value.rankings[k]
                IN  room.final_score =
                        RatAdd(RatAdd(RatMul(<<weights.Comfort, 100>>,
                                             room.comfort_score),
                                      RatMul(<<weights.Health, 100>>,
                                             room.health_score)),
                               RatMul(<<weights.Usability, 100>>,
                                      room.usability_score))

C27_LoadingIffOneRequestInFlight ==
    /\ Len(page.requests) <= 1
    /\ page.loading <=> Len(page.requests) = 1

C27_Witness ==
    /\ page.settled = "rejected"
    /\ ~page.loading
    /\ page.requests = <<>>
    /\ page.rankings # NoRankings

(***************************************************************************)
(* C28. While no evaluation is running, error is set exactly when the      *)
(* evaluation completed last failed; a rejection sets error and leaves the *)
(* rankings as they were, a resolution stores its result as the rankings   *)
(* and leaves error null, and starting an evaluation clears error.         *)
(***************************************************************************)
C28_ErrorIffLastEvaluationFailed ==
    [][/\ page'.loading => page'.error = NoError
       /\ ~page'.loading =>
              (page'.error # NoError <=> page'.settled = "rejected")
       /\ (Len(page'.requests) < Len(page.requests)
             /\ page'.settled = "rejected") =>
              /\ page'.error # NoError
              /\ page'.rankings = page.rankings
       /\ (Len(page'.requests) < Len(page.requests)
             /\ page'.settled = "resolved") =>
              /\ page'.error = NoError
              /\ page'.rankings \in Results]_vars

C28_Witness ==
    /\ page.error # NoError
    /\ page.rankings \in Results
    /\ page.settled = "rejected"
    /\ ~page.loading

====
